---- MODULE Spec2Model ----
(***************************************************************************)
(* Model of src/App.js: the local task generator (inferDomain,            *)
(* generateTasks, the task list kept in React state and mirrored to       *)
(* localStorage) and the completion webhook (toggleComplete and the       *)
(* promise callbacks of its fetch).                                       *)
(*                                                                        *)
(* JavaScript strings are TLA+ strings; characters are one-character      *)
(* strings.  The en dash of the source literals "2-3 days", "3-5 ..." is  *)
(* written as an ASCII hyphen.                                            *)
(***************************************************************************)
EXTENDS Integers, Sequences, FiniteSets, TLC

VARIABLES
  context,      \* useState "context": the text of the Context input
  tasks,        \* useState "tasks": sequence of task records
  webhookUrl,   \* useState "webhookUrl"
  notice,       \* useState "notice": NoNotice or [type, message]
  editingId,    \* useState "editingId": NoId or a task id
  editDraft,    \* useState "editDraft": [name, description, timeframe]
  lsTasks,      \* localStorage["taskgen.tasks.v1"]
  lsUrl,        \* localStorage["taskgen.webhookUrl.v1"]
  now,          \* Date.now(), in milliseconds since the session started
  inflight,     \* fetch() promises not yet settled or still in their callback
  posts,        \* number of fetch() calls made so far
  generatedFrom,\* the text of the Context input when the list was generated
  genInput,     \* argument of a direct call of inferDomain / generateTasks
  genDomain,    \* result of inferDomain(genInput)
  genTasks,     \* result of generateTasks(genInput)
  genPc         \* which direct calls have returned

vars == <<context, tasks, webhookUrl, notice, editingId, editDraft, lsTasks,
          lsUrl, now, inflight, posts, generatedFrom,
          genInput, genDomain, genTasks, genPc>>

appVars == <<context, tasks, webhookUrl, notice, editingId, editDraft, lsTasks,
             lsUrl, now, inflight, posts, generatedFrom>>

genVars == <<genInput, genDomain, genTasks, genPc>>

----------------------------------------------------------------------------
(* Bounds of the model *)

\* Math.random() draws from 0 .. MaxRand-1
MaxRand == 3
\* Date.now() stays within 0 .. MaxClock: the session runs at most this many
\* handlers, one per clock reading
MaxClock == 4
\* the strings handed to inferDomain / generateTasks have at most this many words
MaxWords == 4

----------------------------------------------------------------------------
(* Strings *)

CharAt(s, i) == SubSeq(s, i, i)

Upper == "ABCDEFGHIJKLMNOPQRSTUVWXYZ"
Lower == "abcdefghijklmnopqrstuvwxyz"

\* the lower-case letter of each upper-case letter
LowerMap == [c \in {CharAt(Upper, i) : i \in 1..26} |->
               CharAt(Lower, CHOOSE i \in 1..26 : CharAt(Upper, i) = c)]

LowerOf(c) == IF c \in DOMAIN LowerMap THEN LowerMap[c] ELSE c

RECURSIVE toLowerCase(_)
toLowerCase(s) ==
  IF s = "" THEN "" ELSE LowerOf(CharAt(s, 1)) \o toLowerCase(Tail(s))

\* the characters \s matches and trim() strips, among those of the inputs
IsSpace(c) == c \in {" ", "\t", "\n", "\r", "\f"}

\* the characters . does not match
IsLineTerminator(c) == c \in {"\n", "\r"}

IsDigit(c) == c \in {"0", "1", "2", "3", "4", "5", "6", "7", "8", "9"}

RECURSIVE trimStart(_)
trimStart(s) ==
  IF s # "" /\ IsSpace(CharAt(s, 1)) THEN trimStart(Tail(s)) ELSE s

RECURSIVE trimEnd(_)
trimEnd(s) ==
  IF s # "" /\ IsSpace(CharAt(s, Len(s)))
  THEN trimEnd(SubSeq(s, 1, Len(s) - 1))
  ELSE s

trim(s) == trimEnd(trimStart(s))

\* p occurs in s starting at position i
OccursAt(s, p, i) == i >= 1 /\ i + Len(p) - 1 <= Len(s) /\ SubSeq(s, i, i + Len(p) - 1) = p

\* /p/.test(s) for a literal p
Contains(s, p) == \E i \in 1..(Len(s) - Len(p) + 1) : OccursAt(s, p, i)

\* /p.*q/.test(s) for literals p and q
ContainsThen(s, p, q) ==
  \E i \in 1..(Len(s) - Len(p) - Len(q) + 1) :
     /\ OccursAt(s, p, i)
     /\ \E j \in (i + Len(p))..(Len(s) - Len(q) + 1) :
           /\ OccursAt(s, q, j)
           /\ \A k \in (i + Len(p))..(j - 1) : ~IsLineTerminator(CharAt(s, k))

DigitValue(c) == CHOOSE d \in 0..9 : CharAt("0123456789", d + 1) = c

\* parseInt(s, 10) of a non-empty run of digits
RECURSIVE parseInt(_)
parseInt(s) ==
  IF s = "" THEN 0
  ELSE 10 * parseInt(SubSeq(s, 1, Len(s) - 1)) + DigitValue(CharAt(s, Len(s)))

Min(a, b) == IF a < b THEN a ELSE b
Max(a, b) == IF a > b THEN a ELSE b

----------------------------------------------------------------------------
(* uid, pickTimeframe, inferDomain, generateTasks *)

\* Math.random().toString(36).slice(2) + Date.now().toString(36): the pair of
\* the random draw r and the clock reading t
uid(r, t) == <<r, t>>

RandVals == 0..(MaxRand - 1)

DEFAULT_TIMEFRAMES ==
  <<"15 minutes", "30 minutes", "1 hour", "2 hours", "Half day", "1 day", "2-3 days">>

pickTimeframe(idx) == DEFAULT_TIMEFRAMES[(idx % Len(DEFAULT_TIMEFRAMES)) + 1]

\* inferDomain with the travel group tested before the exam group
inferDomainTravelFirst(ctx) ==
  LET lc == toLowerCase(ctx) IN
  IF \/ Contains(lc, "travel") \/ Contains(lc, "trip") \/ Contains(lc, "itinerary")
     \/ Contains(lc, "flight") \/ Contains(lc, "hotel")
  THEN "travel"
  ELSE IF \/ Contains(lc, "exam") \/ Contains(lc, "study") \/ Contains(lc, "college")
          \/ Contains(lc, "test") \/ Contains(lc, "syllabus")
  THEN "exam"
  ELSE IF \/ Contains(lc, "move") \/ Contains(lc, "relocat") \/ Contains(lc, "apartment")
          \/ Contains(lc, "pack") \/ Contains(lc, "shifting")
  THEN "moving"
  ELSE IF \/ Contains(lc, "pc") \/ ContainsThen(lc, "build", "computer")
          \/ ContainsThen(lc, "gaming", "rig")
          \/ Contains(lc, "components") \/ Contains(lc, "parts")
  THEN "pc"
  ELSE IF \/ Contains(lc, "fitness") \/ Contains(lc, "workout") \/ Contains(lc, "diet")
          \/ Contains(lc, "health") \/ Contains(lc, "gym")
  THEN "fitness"
  ELSE "generic"

inferDomain(ctx) ==
  LET lc == toLowerCase(ctx) IN
  IF \/ Contains(lc, "exam") \/ Contains(lc, "study") \/ Contains(lc, "college")
     \/ Contains(lc, "test") \/ Contains(lc, "syllabus")
  THEN "exam"
  ELSE IF \/ Contains(lc, "move") \/ Contains(lc, "relocat") \/ Contains(lc, "apartment")
          \/ Contains(lc, "pack") \/ Contains(lc, "shifting")
  THEN "moving"
  ELSE IF \/ Contains(lc, "pc") \/ ContainsThen(lc, "build", "computer")
          \/ ContainsThen(lc, "gaming", "rig")
          \/ Contains(lc, "components") \/ Contains(lc, "parts")
  THEN "pc"
  ELSE IF \/ Contains(lc, "travel") \/ Contains(lc, "trip") \/ Contains(lc, "itinerary")
          \/ Contains(lc, "flight") \/ Contains(lc, "hotel")
  THEN "travel"
  ELSE IF \/ Contains(lc, "fitness") \/ Contains(lc, "workout") \/ Contains(lc, "diet")
          \/ Contains(lc, "health") \/ Contains(lc, "gym")
  THEN "fitness"
  ELSE "generic"

base ==
  << [key |-> "research",  name |-> "Research essentials"],
     [key |-> "plan",      name |-> "Draft a plan"],
     [key |-> "resources", name |-> "List resources & tools"],
     [key |-> "execute",   name |-> "Execute first milestone"],
     [key |-> "review",    name |-> "Review & next steps"] >>

domainHints(domain) ==
  CASE domain = "exam" ->
         [research  |-> "Outline subjects and weightage from the syllabus.",
          plan      |-> "Create a 2-week timetable with daily topics.",
          resources |-> "Gather notes, past papers, and flashcards.",
          execute   |-> "Study the first topic and attempt 10 practice questions.",
          review    |-> "Revise mistakes and adjust timetable."]
    [] domain = "moving" ->
         [research  |-> "List must-have vs. discard items.",
          plan      |-> "Create packing schedule and room-wise checklist.",
          resources |-> "Arrange boxes, labels, and transport.",
          execute   |-> "Pack non-essentials and label boxes.",
          review    |-> "Confirm mover timings; update address where needed."]
    [] domain = "pc" ->
         [research  |-> "Pick target use-case, budget, and performance goals.",
          plan      |-> "Draft parts list (CPU, GPU, RAM, SSD, PSU, case).",
          resources |-> "Compare prices; ensure component compatibility.",
          execute   |-> "Order parts or assemble mock build in a PCPartPicker clone.",
          review    |-> "Cable-manage, run benchmarks, and validate thermals."]
    [] domain = "travel" ->
         [research  |-> "Choose destination, season, and budget.",
          plan      |-> "Sketch a 3-5 day itinerary with must-see spots.",
          resources |-> "Check visas, flights, accommodation, and insurance.",
          execute   |-> "Book flights/hotels and set calendar reminders.",
          review    |-> "Share itinerary and offline maps to your phone."]
    [] domain = "fitness" ->
         [research  |-> "Define goals (strength, fat-loss, endurance).",
          plan      |-> "Schedule 3-4 weekly sessions with progressive overload.",
          resources |-> "Set up gear, nutrition plan, and tracker app.",
          execute   |-> "Complete first workout and log metrics.",
          review    |-> "Assess soreness, sleep, and adjust plan."]
    [] domain = "generic" ->
         [research  |-> "Clarify objectives and success criteria.",
          plan      |-> "Break work into 3-5 milestones.",
          resources |-> "List tools, people, or budget needed.",
          execute   |-> "Complete first milestone with a small deliverable.",
          review    |-> "Retrospect and plan the next block."]

\* index of the last character of the run of characters satisfying the class
\* that starts at position i (i - 1 when the run is empty)
RECURSIVE DigitRunEnd(_, _)
DigitRunEnd(s, i) ==
  IF i <= Len(s) /\ IsDigit(CharAt(s, i)) THEN DigitRunEnd(s, i + 1) ELSE i - 1

RECURSIVE SpaceRunEnd(_, _)
SpaceRunEnd(s, i) ==
  IF i <= Len(s) /\ IsSpace(CharAt(s, i)) THEN SpaceRunEnd(s, i + 1) ELSE i - 1

\* /(\d+)\s*task/ matches s starting at position i
TaskCountMatchAt(s, i) ==
  /\ IsDigit(CharAt(s, i))
  /\ OccursAt(s, "task", SpaceRunEnd(s, DigitRunEnd(s, i) + 1) + 1)

\* context.match(/(\d+)\s*task/): NoMatch, or the text of group 1 of the
\* leftmost match
NoMatch == "null"

taskCountMatch(s) ==
  IF \E i \in 1..Len(s) : TaskCountMatchAt(s, i)
  THEN LET i == CHOOSE k \in 1..Len(s) :
                  /\ TaskCountMatchAt(s, k)
                  /\ \A m \in 1..(k - 1) : ~TaskCountMatchAt(s, m)
       IN  SubSeq(s, i, DigitRunEnd(s, i))
  ELSE NoMatch

\* timeframeIndex without the offset of the generic domain
timeframeIndexNoOffset(i, domain) == i

\* the timeframe index of role i (0-based)
timeframeIndex(i, domain) == i + (IF domain = "generic" THEN 1 ELSE 0)

\* desiredCount without the lower clamp
desiredCountUnclamped(ctx, n) ==
  LET match == taskCountMatch(ctx) IN
  IF match # NoMatch THEN Min(5, parseInt(match)) ELSE n

\* the number of tasks kept
desiredCount(ctx, n) ==
  LET match == taskCountMatch(ctx) IN
  IF match # NoMatch THEN Min(5, Max(3, parseInt(match))) ELSE n

\* generateTasks(context); rs[i] is the Math.random() of the i-th uid() call
\* and t the clock during the call
generateTasks(ctx, rs, t) ==
  LET domain == inferDomain(ctx)
      hints  == domainHints(domain)
      all    == [i \in 1..Len(base) |->
                   [id          |-> uid(rs[i], t),
                    name        |-> base[i].name,
                    description |-> hints[base[i].key],
                    timeframe   |-> pickTimeframe(timeframeIndex(i - 1, domain)),
                    completed   |-> FALSE]]
  IN  SubSeq(all, 1, desiredCount(ctx, Len(all)))

----------------------------------------------------------------------------
(* localStorage *)

\* what localStorage.getItem returns: no item, or the item's text.  The text
\* of the tasks item is kept parsed: kind says what JSON.parse makes of it.
NoItem == [kind |-> "absent", items |-> << >>]

\* JSON.stringify of a task list
JSON_stringify(list) == [kind |-> "array", items |-> list]

loadTasks(raw) ==
  IF raw.kind \in {"absent", "empty"} THEN << >>      \* if (!raw) return []
  ELSE IF raw.kind = "unparseable" THEN << >>         \* JSON.parse throws
  ELSE IF raw.kind = "array" THEN raw.items           \* Array.isArray(data)
  ELSE << >>

saveTasks(list) == JSON_stringify(list)

NoUrlItem == [present |-> FALSE, text |-> ""]

loadWebhookUrl(item) == IF item.present /\ item.text # "" THEN item.text ELSE ""

saveWebhookUrl(url) == [present |-> TRUE, text |-> url]

----------------------------------------------------------------------------
(* Values of the component state *)

NoNotice == [type |-> "none", message |-> ""]

NoId == << >>

EmptyDraft == [name |-> "", description |-> "", timeframe |-> ""]

RECURSIVE numberToString(_)
numberToString(n) ==
  IF n < 10 THEN CharAt("0123456789", n + 1)
  ELSE numberToString(n \div 10) \o CharAt("0123456789", (n % 10) + 1)

Ids(list) == {list[i].id : i \in 1..Len(list)}

RECURSIVE filterOutId(_, _)
filterOutId(list, id) ==
  IF list = << >> THEN << >>
  ELSE IF Head(list).id = id THEN filterOutId(Tail(list), id)
       ELSE <<Head(list)>> \o filterOutId(Tail(list), id)

\* replaceById that drops the matching tasks instead
replaceByIdDropping(list, id, updated) == filterOutId(list, id)

\* prev.map((t) => (t.id === id ? updated : t))
replaceById(list, id, updated) ==
  [i \in 1..Len(list) |-> IF list[i].id = id THEN updated ELSE list[i]]

\* prev.map((t) => (t.id === id ? { ...t, ...draft } : t))
mergeDraftById(list, id, draft) ==
  [i \in 1..Len(list) |->
     IF list[i].id = id
     THEN [list[i] EXCEPT !.name = draft.name,
                          !.description = draft.description,
                          !.timeframe = draft.timeframe]
     ELSE list[i]]

----------------------------------------------------------------------------
(* Inputs *)

\* texts typed into the Context input
AppContexts == {"", " ", "gym 3 tasks"}

\* texts typed into the Webhook URL input
AppUrls == {"", "https://hook.example/t"}

\* text typed into a field of the edit form
EditTexts == {"edited"}

\* the tasks item found in localStorage when the page is opened
savedList ==
  LET g == generateTasks("trip 3 tasks", [i \in 1..5 |-> (i - 1) % MaxRand], -1)
  IN  <<[g[1] EXCEPT !.completed = TRUE], g[2]>>

InitialTaskItems ==
  { NoItem,
    [kind |-> "empty", items |-> << >>],
    [kind |-> "unparseable", items |-> << >>],
    [kind |-> "object", items |-> << >>],
    JSON_stringify(<< >>),
    JSON_stringify(savedList) }

InitialUrlItems == {NoUrlItem} \cup {saveWebhookUrl(u) : u \in AppUrls}

\* responses of the endpoint
Responses ==
  { [status |-> 200, statusText |-> "OK"],
    [status |-> 500, statusText |-> "Internal Server Error"] }

\* what res.text() gives: a text, or a rejection
BodyThrows == "<rejects>"
Bodies == {"denied", BodyThrows}

\* what the fetch promise rejects with: an Error with a message, or a value
\* without one
NoMessage == "<undefined>"
ErrorMessages == {"Failed to fetch", "", NoMessage}

----------------------------------------------------------------------------
(* The component: state after the first render and its effects *)

\* the list was not made by generateTasks in this session
NotGenerated == "<none>"

GenIdle ==
  /\ genInput = ""
  /\ genDomain = "<none>"
  /\ genTasks = << >>
  /\ genPc = "idle"

Mounted(taskItem, urlItem) ==
  /\ context = ""
  /\ tasks = loadTasks(taskItem)
  /\ webhookUrl = loadWebhookUrl(urlItem)
  /\ notice = NoNotice
  /\ editingId = NoId
  /\ editDraft = EmptyDraft
  /\ lsTasks = saveTasks(loadTasks(taskItem))
  /\ lsUrl = saveWebhookUrl(loadWebhookUrl(urlItem))
  /\ now = 0
  /\ inflight = << >>
  /\ posts = 0
  /\ generatedFrom = NotGenerated

Init ==
  /\ \E taskItem \in InitialTaskItems : \E urlItem \in InitialUrlItems :
        Mounted(taskItem, urlItem)
  /\ GenIdle

----------------------------------------------------------------------------
(* Handlers *)

\* a handler runs: a user event or a promise callback.  The clock is read
\* once per run, one reading after the run before it.
Handled == now < MaxClock /\ now' = now + 1

\* onChange of the Context input
setContext(v) ==
  /\ Handled
  /\ v # context
  /\ context' = v
  /\ UNCHANGED <<tasks, webhookUrl, notice, editingId, editDraft, lsTasks,
                 lsUrl, inflight, posts, generatedFrom, genVars>>

\* onChange of the Webhook URL input, and the effect that saves it
setWebhookUrl(v) ==
  /\ Handled
  /\ v # webhookUrl
  /\ webhookUrl' = v
  /\ lsUrl' = saveWebhookUrl(v)
  /\ UNCHANGED <<context, tasks, notice, editingId, editDraft, lsTasks,
                 inflight, posts, generatedFrom, genVars>>

\* the close button of the notice
closeNotice ==
  /\ Handled
  /\ notice # NoNotice
  /\ notice' = NoNotice
  /\ UNCHANGED <<context, tasks, webhookUrl, editingId, editDraft, lsTasks,
                 lsUrl, inflight, posts, generatedFrom, genVars>>

startEdit(i) ==
  /\ Handled
  /\ i \in 1..Len(tasks)
  /\ tasks[i].id # editingId
  /\ editingId' = tasks[i].id
  /\ editDraft' = [name |-> tasks[i].name, description |-> tasks[i].description,
                   timeframe |-> tasks[i].timeframe]
  /\ UNCHANGED <<context, tasks, webhookUrl, notice, lsTasks, lsUrl, 
                 inflight, posts, generatedFrom, genVars>>

\* onChange of a field of the edit form
changeDraft(field, v) ==
  /\ Handled
  /\ editingId \in Ids(tasks)
  /\ v # editDraft[field]
  /\ editDraft' = [editDraft EXCEPT ![field] = v]
  /\ UNCHANGED <<context, tasks, webhookUrl, notice, editingId, lsTasks, lsUrl,
                 inflight, posts, generatedFrom, genVars>>

cancelEdit ==
  /\ Handled
  /\ editingId \in Ids(tasks)
  /\ editingId' = NoId
  /\ editDraft' = EmptyDraft
  /\ UNCHANGED <<context, tasks, webhookUrl, notice, lsTasks, lsUrl, 
                 inflight, posts, generatedFrom, genVars>>

\* the Save button of the task being edited
saveEdit ==
  /\ Handled
  /\ editingId \in Ids(tasks)
  /\ tasks' = mergeDraftById(tasks, editingId, editDraft)
  /\ lsTasks' = saveTasks(tasks')
  /\ editingId' = NoId
  /\ editDraft' = EmptyDraft
  /\ UNCHANGED <<context, webhookUrl, notice, lsUrl, inflight, posts,
                 generatedFrom, genVars>>

\* isBlank without the trim
isBlankUntrimmed(ctx) == ctx = ""

\* !context.trim()
isBlank(ctx) == trim(ctx) = ""

\* setTasks(generated)
replaceTasks(prev, generated) == generated

\* the draws of the five uid() calls of generateTasks, up to a renaming of
\* the random values (a draw is 0, or at most one more than the largest draw
\* before it); a draw for a task that is sliced away does not reach the
\* state and is fixed to 0
DrawsTable ==
  [n \in 0..Len(base) |->
     {[i \in 1..Len(base) |-> IF i <= n THEN f[i] ELSE 0] :
        f \in {g \in [1..n -> RandVals] :
                 \A i \in 1..n : g[i] = 0 \/ \E j \in 1..(i - 1) : g[j] >= g[i] - 1}}]

Draws(n) == DrawsTable[n]

addGenerated ==
  /\ Handled
  /\ UNCHANGED <<context, webhookUrl, editingId, editDraft, lsUrl,
                 inflight, posts, genVars>>
  /\ IF isBlank(context)
     THEN /\ notice' = [type |-> "error", message |-> "Please enter some context first."]
          /\ UNCHANGED <<tasks, lsTasks, generatedFrom>>
     ELSE /\ generatedFrom' = context
          /\ \E rs \in Draws(desiredCount(trim(context), Len(base))) :
               LET generated == generateTasks(trim(context), rs, now') IN
               /\ tasks' = replaceTasks(tasks, generated)
               /\ lsTasks' = saveTasks(tasks')
               /\ notice' = [type |-> "success",
                             message |-> "Generated " \o numberToString(Len(generated))
                                           \o " task(s)."]

addTask ==
  /\ Handled
  /\ \E r \in RandVals :
       tasks' = Append(tasks, [id          |-> uid(r, now'),
                               name        |-> "New Task",
                               description |-> "Describe the task...",
                               timeframe   |-> pickTimeframe(Len(tasks)),
                               completed   |-> FALSE])
  /\ lsTasks' = saveTasks(tasks')
  /\ UNCHANGED <<context, webhookUrl, notice, editingId, editDraft, lsUrl, 
                 inflight, posts, generatedFrom, genVars>>

\* the Delete button of task i, shown while the task is not being edited
deleteTask(i) ==
  /\ Handled
  /\ i \in 1..Len(tasks)
  /\ tasks[i].id # editingId
  /\ tasks' = filterOutId(tasks, tasks[i].id)
  /\ lsTasks' = saveTasks(tasks')
  /\ UNCHANGED <<context, webhookUrl, notice, editingId, editDraft, lsUrl, 
                 inflight, posts, generatedFrom, genVars>>

----------------------------------------------------------------------------
(* toggleComplete and the webhook *)

\* shouldNotify that ignores the task's state
shouldNotifyAlways(task) == TRUE

\* if (!task.completed)
shouldNotify(task) == ~task.completed

\* hasWebhook that accepts the empty URL
hasWebhookAlways(url) == TRUE

\* the negation of  if (!webhookUrl)
hasWebhook(url) == url # ""

\* payloadContext taken from the text the list was generated from
payloadContextAtGeneration == generatedFrom

\* the context property of the payload
payloadContext == context

\* the payload; timestamp is the clock reading that toISOString() renders
buildPayload(task) ==
  [event     |-> "task_completed",
   timestamp |-> now',
   source    |-> "taskgen-local-app",
   version   |-> 1,
   task      |-> [id |-> task.id, name |-> task.name,
                  description |-> task.description,
                  timeframe |-> task.timeframe, completed |-> TRUE],
   context   |-> payloadContext]

NoResponse == [status |-> 0, statusText |-> ""]

\* the fetch(webhookUrl, {method: "POST", headers, body}) call number n
newRequest(n, url, payload) ==
  [seq     |-> n,
   url     |-> url,
   method  |-> "POST",
   headers |-> [ContentType |-> "application/json"],
   body    |-> payload,
   phase   |-> "pending",
   res     |-> NoResponse]

toggleComplete(i) ==
  /\ Handled
  /\ i \in 1..Len(tasks)
  /\ LET task    == tasks[i]
         updated == [task EXCEPT !.completed = ~task.completed]
     IN  /\ tasks' = replaceById(tasks, task.id, updated)
         /\ lsTasks' = saveTasks(tasks')
         /\ IF shouldNotify(task)
            THEN IF ~hasWebhook(webhookUrl)
                 THEN /\ notice' = [type |-> "error",
                                    message |-> "No webhook URL set. Open Settings to add one."]
                      /\ UNCHANGED <<inflight, posts>>
                 ELSE /\ inflight' = Append(inflight,
                                            newRequest(posts + 1, webhookUrl, buildPayload(task)))
                      /\ posts' = posts + 1
                      /\ UNCHANGED notice
            ELSE UNCHANGED <<notice, inflight, posts>>
  /\ UNCHANGED <<context, webhookUrl, editingId, editDraft, lsUrl, 
                 generatedFrom, genVars>>

RemoveAt(seq, k) == SubSeq(seq, 1, k - 1) \o SubSeq(seq, k + 1, Len(seq))

\* resOk that takes every response for a success
resOkAlways(res) == TRUE

\* res.ok
resOk(res) == res.status >= 200 /\ res.status <= 299

\* the notice the then-callback sets
responseNotice(res) ==
  IF resOk(res)
  THEN [type |-> "success", message |-> "Webhook sent successfully."]
  ELSE [type |-> "error",
        message |-> "Webhook failed: " \o numberToString(res.status) \o " "
                      \o res.statusText]

\* err?.message || "Network error"
errorText(msg) == IF msg = NoMessage \/ msg = "" THEN "Network error" ELSE msg

\* the notice the catch-callback sets
errorNotice(msg) ==
  [type |-> "error", message |-> "Webhook error: " \o errorText(msg)]

\* the promise of request k resolves: the then-callback runs up to
\* await res.text()
fetchResolves(k, res) ==
  /\ k \in 1..Len(inflight)
  /\ inflight[k].phase = "pending"
  /\ inflight' = [inflight EXCEPT ![k].phase = "reading", ![k].res = res]
  /\ UNCHANGED <<context, tasks, webhookUrl, notice, editingId, editDraft,
                 lsTasks, lsUrl, posts, generatedFrom, genVars>>

\* res.text() settles with bodyText (or rejects, leaving ""): the rest of the
\* then-callback
bodyRead(k, bodyText) ==
  /\ k \in 1..Len(inflight)
  /\ inflight[k].phase = "reading"
  /\ notice' = responseNotice(inflight[k].res)
  /\ inflight' = RemoveAt(inflight, k)
  /\ UNCHANGED <<context, tasks, webhookUrl, editingId, editDraft,
                 lsTasks, lsUrl, posts, generatedFrom, genVars>>

\* the promise of request k rejects: the catch-callback
fetchRejects(k, msg) ==
  /\ k \in 1..Len(inflight)
  /\ inflight[k].phase = "pending"
  /\ notice' = errorNotice(msg)
  /\ inflight' = RemoveAt(inflight, k)
  /\ UNCHANGED <<context, tasks, webhookUrl, editingId, editDraft,
                 lsTasks, lsUrl, posts, generatedFrom, genVars>>

----------------------------------------------------------------------------
(* The application *)

UserEventStep ==
  \/ \E v \in AppContexts : setContext(v)
  \/ \E v \in AppUrls : setWebhookUrl(v)
  \/ closeNotice
  \/ \E i \in 1..Len(tasks) : startEdit(i)
  \/ \E field \in {"name", "description", "timeframe"} : \E v \in EditTexts :
       changeDraft(field, v)
  \/ cancelEdit
  \/ saveEdit
  \/ addGenerated
  \/ addTask
  \/ \E i \in 1..Len(tasks) : deleteTask(i)
  \/ \E i \in 1..Len(tasks) : toggleComplete(i)

CallbackStep ==
  \/ \E k \in 1..Len(inflight) : \E res \in Responses : fetchResolves(k, res)
  \/ \E k \in 1..Len(inflight) : \E bodyText \in Bodies : bodyRead(k, bodyText)
  \/ \E k \in 1..Len(inflight) : \E msg \in ErrorMessages : fetchRejects(k, msg)

Next ==
  \/ UserEventStep
  \/ Handled /\ CallbackStep

Spec == Init /\ [][Next]_vars

----------------------------------------------------------------------------
(* The webhook alone: completions and their requests, with the promise     *)
(* callbacks outside the count of handler runs, so that a request issued   *)
(* by the last counted event still settles.  The transport settles every   *)
(* fetch promise (a response or a failure) and every res.text().           *)

NotifyStep ==
  \/ \E v \in AppUrls : setWebhookUrl(v)
  \/ closeNotice
  \/ \E i \in 1..Len(tasks) : toggleComplete(i)

\* the callbacks of fetch call number n
Settles(n) ==
  \E k \in 1..Len(inflight) :
     /\ inflight[k].seq = n
     /\ \/ \E res \in Responses : fetchResolves(k, res)
        \/ \E bodyText \in Bodies : bodyRead(k, bodyText)
        \/ \E msg \in ErrorMessages : fetchRejects(k, msg)

NextNotify ==
  \/ NotifyStep
  \/ UNCHANGED now /\ CallbackStep

FairSpec ==
  /\ Init
  /\ [][NextNotify]_vars
  /\ \A n \in 1..MaxClock : WF_vars(UNCHANGED now /\ Settles(n))

----------------------------------------------------------------------------
(* Direct calls of inferDomain and generateTasks *)

Vocabulary == {"Exam", "pack", "pc", "trip", "gym", "1", "4", " ", "task"}

RECURSIVE Texts(_)
Texts(n) ==
  IF n = 0 THEN {""}
  ELSE LET shorter == Texts(n - 1)
       IN  shorter \cup {t \o w : t \in shorter, w \in Vocabulary}

GenInputs == Texts(MaxWords)

\* the draws of the uid() calls of a direct call
GenDraws == [i \in 1..Len(base) |-> (i - 1) % MaxRand]

InitGen ==
  /\ Mounted(NoItem, NoUrlItem)
  /\ genInput \in GenInputs
  /\ genDomain = "<none>"
  /\ genTasks = << >>
  /\ genPc = "start"

callInferDomain ==
  /\ genPc = "start"
  /\ genDomain' = inferDomain(genInput)
  /\ genPc' = "classified"
  /\ UNCHANGED <<genInput, genTasks, appVars>>

callGenerateTasks ==
  /\ genPc = "classified"
  /\ genTasks' = generateTasks(genInput, GenDraws, now)
  /\ genPc' = "done"
  /\ UNCHANGED <<genInput, genDomain, appVars>>

NextGen == callInferDomain \/ callGenerateTasks

SpecGen == InitGen /\ [][NextGen]_vars

----------------------------------------------------------------------------
(* Properties of inferDomain and generateTasks, under SpecGen *)

RoleNames ==
  <<"Research essentials", "Draft a plan", "List resources & tools",
    "Execute first milestone", "Review & next steps">>

\* text[i..j] is a run of digits, followed by whitespace up to k, followed by
\* "task"
NumberedTaskAt(text, i, j, k) ==
  /\ i <= j /\ j <= k
  /\ \A m \in i..j : IsDigit(CharAt(text, m))
  /\ \A m \in (j + 1)..k : IsSpace(CharAt(text, m))
  /\ k + 4 <= Len(text)
  /\ SubSeq(text, k + 1, k + 4) = "task"

HasNumberedTask(text) ==
  \E i \in 1..Len(text) : \E j \in i..Len(text) : \E k \in j..Len(text) :
     NumberedTaskAt(text, i, j, k)

\* the value of the digits text[i..j]
RECURSIVE Decimal(_, _, _)
Decimal(text, i, j) ==
  IF j < i THEN 0
  ELSE Decimal(text, i, j - 1) * 10
         + (CHOOSE d \in 0..9 : numberToString(d) = CharAt(text, j))

\* the number of the first "<digits> task" of the text
FirstTaskNumber(text) ==
  LET first == CHOOSE i \in 1..Len(text) :
                 /\ \E j \in i..Len(text) : \E k \in j..Len(text) :
                       NumberedTaskAt(text, i, j, k)
                 /\ \A m \in 1..(i - 1) :
                       ~\E j \in m..Len(text) : \E k \in j..Len(text) :
                           NumberedTaskAt(text, m, j, k)
       last  == CHOOSE j \in first..Len(text) :
                 \E k \in j..Len(text) : NumberedTaskAt(text, first, j, k)
  IN  Decimal(text, first, last)

Clamp3to5(n) == IF n < 3 THEN 3 ELSE IF n > 5 THEN 5 ELSE n

ExpectedCount(text) ==
  IF HasNumberedTask(text) THEN Clamp3to5(FirstTaskNumber(text)) ELSE 5

\* C1: generateTasks returns N tasks, N in 3..5, which are the first N roles
\* in the fixed order by display name, none completed; N is the first
\* "<digits> task" number of the context clamped into 3..5, and 5 when the
\* context has no such number.
C1_CountAndRoles ==
  genPc = "done" =>
    /\ Len(genTasks) \in 3..5
    /\ Len(genTasks) = ExpectedCount(genInput)
    /\ \A i \in 1..Len(genTasks) :
          /\ genTasks[i].name = RoleNames[i]
          /\ genTasks[i].completed = FALSE

\* a request for 41 tasks is lowered to 5
C1_Witness ==
  /\ genPc = "done"
  /\ genInput = "41 task"
  /\ Len(genTasks) = 5
  /\ genTasks[5].name = "Review & next steps"

KeywordGroups ==
  << [domain |-> "exam",
      words  |-> {"exam", "study", "college", "test", "syllabus"},
      phrases |-> {}],
     [domain |-> "moving",
      words  |-> {"move", "relocat", "apartment", "pack", "shifting"},
      phrases |-> {}],
     [domain |-> "pc",
      words  |-> {"pc", "components", "parts"},
      phrases |-> {<<"build", "computer">>, <<"gaming", "rig">>}],
     [domain |-> "travel",
      words  |-> {"travel", "trip", "itinerary", "flight", "hotel"},
      phrases |-> {}],
     [domain |-> "fitness",
      words  |-> {"fitness", "workout", "diet", "health", "gym"},
      phrases |-> {}] >>

\* group g matches the lower-cased text lc
GroupMatches(g, lc) ==
  \/ \E w \in KeywordGroups[g].words : Contains(lc, w)
  \/ \E ph \in KeywordGroups[g].phrases : ContainsThen(lc, ph[1], ph[2])

\* C8: inferDomain returns the first keyword group, in the order exam, moving,
\* pc, travel, fitness, that the lower-cased input matches, and generic
\* exactly when no group matches, as for the empty and the whitespace-only
\* input.
C8_FirstGroupWins ==
  genPc \in {"classified", "done"} =>
    LET lc       == toLowerCase(genInput)
        matching == {g \in 1..Len(KeywordGroups) : GroupMatches(g, lc)}
    IN  /\ matching # {} =>
             /\ genDomain # "generic"
             /\ \E g \in matching :
                   /\ \A h \in matching : g <= h
                   /\ genDomain = KeywordGroups[g].domain
        /\ matching = {} => genDomain = "generic"
        /\ trim(genInput) = "" => genDomain = "generic"

\* an input with an exam keyword (in upper case) and a travel keyword
C8_Witness ==
  /\ genPc = "classified"
  /\ genInput = "tripExam"
  /\ genDomain = "exam"

\* C9: the task of role index i (0-based) has the timeframe
\* cycle[(i + offset) mod 7], offset 1 for the generic domain and 0 otherwise,
\* and the catalog hint of (domain, role i); truncation does not shift them.
C9_TimeframesAndHints ==
  genPc = "done" =>
    LET offset == IF genDomain = "generic" THEN 1 ELSE 0 IN
    \A i \in 0..(Len(genTasks) - 1) :
       /\ genTasks[i + 1].timeframe = DEFAULT_TIMEFRAMES[((i + offset) % 7) + 1]
       /\ genTasks[i + 1].description = domainHints(genDomain)[base[i + 1].key]

\* generic domain, 1 task requested: three tasks, timeframes cycle[1..3]
C9_Witness ==
  /\ genPc = "done"
  /\ genInput = "1 task"
  /\ genDomain = "generic"
  /\ Len(genTasks) = 3
  /\ genTasks[1].timeframe = "30 minutes"
  /\ genTasks[3].timeframe = "2 hours"
  /\ genTasks[1].description = "Clarify objectives and success criteria."

----------------------------------------------------------------------------
(* Properties of the application, under Spec and FairSpec *)

\* the numbers of the fetch calls in flight
Seqs(reqs) == {reqs[k].seq : k \in 1..Len(reqs)}

OnlyWhitespace(text) == \A m \in 1..Len(text) : IsSpace(CharAt(text, m))

\* C2: a toggle of a not-completed task while the webhook URL is not empty
\* issues exactly one POST; no other step issues a request (no retry after a
\* failure response or a transport error), and a toggle of a completed task
\* issues none and leaves the notice alone.  So the number of POSTs is the
\* number of completing toggles made with a non-empty URL.
C2_OnePostPerCompletion ==
  [][ LET completing == \E i \in 1..Len(tasks) :
                           /\ ~tasks[i].completed
                           /\ webhookUrl # ""
                           /\ toggleComplete(i)
      IN  /\ completing =>
                /\ posts' = posts + 1
                /\ Len(inflight') = Len(inflight) + 1
                /\ \A k \in 1..Len(inflight) : inflight'[k] = inflight[k]
                /\ LET sent == inflight'[Len(inflight')]
                   IN  /\ sent.seq = posts'
                       /\ sent.method = "POST"
                       /\ sent.url = webhookUrl
                       /\ sent.phase = "pending"
          /\ ~completing =>
                /\ posts' = posts
                /\ Seqs(inflight') \subseteq Seqs(inflight)
          /\ \A i \in 1..Len(tasks) :
                (tasks[i].completed /\ toggleComplete(i))
                   => /\ notice' = notice
                      /\ inflight' = inflight
    ]_vars

\* one completion was notified, the endpoint answered 500, and nothing was
\* sent again
C2_Witness ==
  /\ posts = 1
  /\ inflight = << >>
  /\ notice.message = "Webhook failed: 500 Internal Server Error"
  /\ \E i \in 1..Len(tasks) : tasks[i].completed

\* C3: a toggle of a not-completed task while the webhook URL is empty issues
\* no request and sets the configuration-error notice, whatever is in flight.
C3_NoUrlNoRequest ==
  [][ \A i \in 1..Len(tasks) :
        (~tasks[i].completed /\ webhookUrl = "" /\ toggleComplete(i))
           => /\ inflight' = inflight
              /\ posts' = posts
              /\ notice'.type = "error"
              /\ notice'.message = "No webhook URL set. Open Settings to add one."
    ]_vars

\* the configuration error is shown while an earlier request is in flight
C3_Witness ==
  /\ notice.message = "No webhook URL set. Open Settings to add one."
  /\ webhookUrl = ""
  /\ inflight # << >>
  /\ \E i \in 1..Len(tasks) : tasks[i].completed

\* the notice for a response
ExpectedResponseNotice(res) ==
  IF res.status \in 200..299
  THEN [type |-> "success", message |-> "Webhook sent successfully."]
  ELSE [type |-> "error",
        message |-> "Webhook failed: " \o numberToString(res.status) \o " "
                      \o res.statusText]

\* C4: every request issued eventually leaves the requests in flight, in a
\* step that sets the one notice of its outcome: success for a success
\* status, the status and status text otherwise (whatever the body), the
\* error's message or "Network error" for a transport failure.  No other
\* callback step sets a notice, and a request number is never used twice.
C4_OutcomeOfEachRequest ==
  /\ [][ /\ \A k \in 1..Len(inflight) :
              LET r == inflight[k] IN
              r.seq \notin Seqs(inflight') =>
                 IF r.phase = "reading"
                 THEN notice' = ExpectedResponseNotice(r.res)
                 ELSE \E msg \in ErrorMessages :
                        /\ fetchRejects(k, msg)
                        /\ notice'.type = "error"
                        /\ notice'.message =
                             "Webhook error: "
                               \o (IF msg \in {"", NoMessage} THEN "Network error" ELSE msg)
         /\ Cardinality(Seqs(inflight) \ Seqs(inflight')) <= 1
         /\ \A k \in 1..Len(inflight) : \A res \in Responses :
              fetchResolves(k, res) => notice' = notice
         /\ \A n \in Seqs(inflight') \ Seqs(inflight) : n > posts
     ]_vars
  /\ \A n \in 1..MaxClock :
        (n \in Seqs(inflight)) ~> (n \notin Seqs(inflight))

\* a request was answered 500 while another one is still in flight
C4_Witness ==
  /\ notice = [type |-> "error",
               message |-> "Webhook failed: 500 Internal Server Error"]
  /\ posts = 2
  /\ Len(inflight) = 1

\* C5: no two tasks of the list have the same id.
C5_UniqueIds ==
  \A i \in 1..Len(tasks) : \A j \in 1..Len(tasks) :
     i # j => tasks[i].id # tasks[j].id

\* C6 as stated: the context of a payload is the text the current list was
\* generated from.
C6_ContextOfGeneration ==
  [][ (posts' = posts + 1 /\ generatedFrom # NotGenerated)
        => inflight'[Len(inflight')].body.context = generatedFrom ]_vars

\* C6 amended: the context of a payload is the text of the Context input at
\* the time of the toggle.
C6_ContextAtCompletion ==
  [][ posts' = posts + 1
        => inflight'[Len(inflight')].body.context = context ]_vars

\* a task of the generated list was completed after the text was changed
C6_Witness ==
  /\ generatedFrom # NotGenerated
  /\ \E k \in 1..Len(inflight) :
        /\ inflight[k].body.context # generatedFrom
        /\ inflight[k].body.task.id \in Ids(tasks)
        /\ inflight[k].body.task.name \in {RoleNames[i] : i \in 1..5}

\* C7: Generate with an empty or whitespace-only context leaves the list and
\* its stored copy unchanged and sets an error notice; with any other context
\* the list becomes the generated tasks alone, all made in this run.
C7_GenerateRefusesBlankElseReplaces ==
  [][ addGenerated =>
        IF OnlyWhitespace(context)
        THEN /\ tasks' = tasks
             /\ lsTasks' = lsTasks
             /\ notice'.type = "error"
        ELSE /\ Len(tasks') \in 3..5
             /\ \A i \in 1..Len(tasks') :
                   /\ tasks'[i].name = RoleNames[i]
                   /\ tasks'[i].completed = FALSE
                   /\ tasks'[i].id[2] = now'
             /\ lsTasks' = [kind |-> "array", items |-> tasks']
    ]_vars

\* Generate was refused for a whitespace-only context and the list is kept
C7_Witness ==
  /\ context = " "
  /\ notice = [type |-> "error", message |-> "Please enter some context first."]
  /\ tasks # << >>
  /\ lsTasks.items = tasks

\* C10 as stated: a task leaves the list only through deleteTask on its id.
C10_OnlyDeleteRemoves ==
  [][ \A id \in Ids(tasks) \ Ids(tasks') :
        \E i \in 1..Len(tasks) : tasks[i].id = id /\ deleteTask(i) ]_vars

\* C10 amended: a task leaves the list only through deleteTask on its id or
\* through Generate with a context that is not blank, which replaces the list.
C10_DeleteOrGenerateRemoves ==
  [][ LET generating == ~OnlyWhitespace(context) /\ addGenerated IN
      /\ \A id \in Ids(tasks) \ Ids(tasks') :
            \/ \E i \in 1..Len(tasks) : tasks[i].id = id /\ deleteTask(i)
            \/ generating
      /\ Len(tasks') < Len(tasks) =>
            \/ \E i \in 1..Len(tasks) : deleteTask(i)
            \/ generating
    ]_vars

\* one of three generated tasks was deleted
C10_Witness ==
  /\ notice.message = "Generated 3 task(s)."
  /\ Len(tasks) = 2
  /\ \A i \in 1..Len(tasks) : tasks[i].name \in {RoleNames[j] : j \in 1..5}

====
